---------------------------- MODULE Spec2Model ----------------------------
(***************************************************************************)
(* A model of zotero-ls: the JSON-RPC client (json_rpc.py), the Better     *)
(* BibTeX facade (bbt/rpc.py), the citation-key database (bbt/db.py) and   *)
(* the language-server handlers (cli.py).                                  *)
(*                                                                         *)
(* Coroutines are split at their await points: the part of a handler       *)
(* between two awaits is one atomic step (asyncio's cooperative            *)
(* scheduling), and the transport and the store are the environment.       *)
(* Python assert statements are modelled as enabled (no -O).               *)
(***************************************************************************)
EXTENDS Integers, Sequences, FiniteSets, TLC

\* ------------------------------------------------------------- bounds
\* send_request calls made on one client in a run
MaxCalls == 2
\* close() calls counted in a row
MaxCloses == 2
\* rows of the citationkey table
MaxRows == 2
\* completion requests handled in a run
MaxCompletions == 2

\* ------------------------------------------------------- JSON values
\* A JSON value on the wire is its kind and its text; a field that the
\* message does not carry at all is Absent (not a JSON value).
JsonNull == [kind |-> "null", text |-> "null"]
Absent == [kind |-> "absent", text |-> ""]
JsonValues ==
    { JsonNull,
      [kind |-> "boolean", text |-> "true"],
      [kind |-> "number", text |-> "1"],
      [kind |-> "string", text |-> "\"doe2020\""],
      [kind |-> "array", text |-> "[1]"],
      [kind |-> "object", text |-> "{\"k\":1}"] }

\* A Python value is its type and its value written as JSON text.
None == [type |-> "NoneType", text |-> "null"]

\* pydantic's validation of a JsonValue | None field with default None:
\* a missing field takes the default None, and JSON null parses to None too.
PyType(kind) ==
    CASE kind = "boolean" -> "bool"
      [] kind = "number" -> "int"
      [] kind = "string" -> "str"
      [] kind = "array" -> "list"
      [] kind = "object" -> "dict"
      [] OTHER -> "NoneType"

\* json_loads with booleans coerced to integers.
json_loads_bool_as_int(w) ==
    IF w.kind \in {"absent", "null"} THEN None
    ELSE IF w.kind = "boolean" THEN [type |-> "int", text |-> w.text]
    ELSE [type |-> PyType(w.kind), text |-> w.text]

json_loads(w) ==
    IF w.kind \in {"absent", "null"} THEN None
    ELSE [type |-> PyType(w.kind), text |-> w.text]

\* The JSON value a Python value serialises to.
JsonKind(type) ==
    CASE type = "bool" -> "boolean"
      [] type = "int" -> "number"
      [] type = "str" -> "string"
      [] type = "list" -> "array"
      [] type = "dict" -> "object"
      [] OTHER -> "null"

json_dumps(v) == [kind |-> JsonKind(v.type), text |-> v.text]


\* ------------------------------------------------------ json_rpc.py
\* Params = None | list | dict: None, or the list of positional params.
NoParams == [kind |-> "None", items |-> <<>>]
ListParams(items) == [kind |-> "list", items |-> items]

\* bbt/rpc.py, Translators.BIBTEX
BIBTEX == "Better BibTeX"

\* The messages a caller of the client sends: those of the facade,
\* api.ready() and item.export(keys, translator).
Messages ==
    { [method |-> "api.ready", params |-> NoParams],
      [method |-> "item.export",
       params |-> ListParams(<<(<<"doe2020">>), BIBTEX>>)] }

\* Request ids are str(uuid4()): fresh for every request.  The k-th uuid
\* drawn is written k; NoId is a response id that is null or missing.
NoId == 0
RequestIds == 1..MaxCalls
ResponseIds == {NoId} \cup RequestIds

JsonRpcRequest(id, method, params) ==
    [jsonrpc |-> "2.0", id |-> id, method |-> method, params |-> params]

\* The error member of a response: missing, null, or an error object.
NoError == [kind |-> "absent", code |-> 0, message |-> "", data |-> Absent]
NullError == [kind |-> "null", code |-> 0, message |-> "", data |-> Absent]
NotFound ==
    [kind |-> "object", code |-> -32000, message |-> "not found", data |-> Absent]
ErrorMembers == {NoError, NullError, NotFound}

\* JsonRpcErrorPayload | None after validation: None for a missing or null
\* member.
JsonRpcErrorPayload(e) == IF e.kind = "object" THEN e ELSE NoError

\* What the transport hands back for one POST: a connection or status
\* failure (raise_for_status=True), or a 2xx reply with a JSON body.
TransportFailure ==
    [status |-> "error", jsonrpc |-> "2.0", id |-> NoId,
     result |-> Absent, error |-> NoError]
Bodies ==
    [status : {"ok"}, jsonrpc : {"2.0"}, id : ResponseIds,
     result : {Absent} \cup JsonValues, error : ErrorMembers]
\* A reply of another protocol version (jsonrpc is Literal["2.0"]).
OldVersionBodies ==
    [status : {"ok"}, jsonrpc : {"1.0"}, id : RequestIds,
     result : {[kind |-> "string", text |-> "\"doe2020\""]}, error : {NullError}]
Replies == Bodies \cup OldVersionBodies \cup {TransportFailure}

\* _result_or_error without its second check (both members set).
_result_or_error_raises_neither_only(result, error) ==
    result = None /\ error.kind # "object"

\* JsonRpcResponse._result_or_error: TRUE when the validator raises.
_result_or_error_raises(result, error) ==
    \/ result = None /\ error.kind # "object"
    \/ result # None /\ error.kind = "object"

\* JsonRpcResponse.model_validate_json: the validated fields, or invalid.
JsonRpcResponse(body) ==
    LET result == json_loads(body.result)
        error == JsonRpcErrorPayload(body.error)
    IN  [valid |-> body.jsonrpc = "2.0" /\ ~_result_or_error_raises(result, error),
         id |-> body.id, result |-> result, error |-> error]

\* How one send_request ends.
Returned(v) == [kind |-> "returned", value |-> v, error |-> NoError]
Raised(exc, e) == [kind |-> exc, value |-> None, error |-> e]

\* send_request without the assertion on the response id (line 86).
send_request_result_no_id_check(request, reply) ==
    IF reply.status # "ok" THEN Raised("ClientError", NoError)
    ELSE LET response == JsonRpcResponse(reply) IN
         IF ~response.valid THEN Raised("ValidationError", NoError)
         ELSE IF response.error.kind = "object"
              THEN IF response.result # None THEN Raised("AssertionError", NoError)
                   ELSE IF response.id # NoId THEN Raised("AssertionError", NoError)
                   ELSE Raised("JsonRpcError", response.error)
         ELSE IF response.result = None THEN Raised("AssertionError", NoError)
         ELSE Returned(response.result)

\* send_request from the reply on: lines 77-87.
send_request_result(request, reply) ==
    IF reply.status # "ok" THEN Raised("ClientError", NoError)
    ELSE LET response == JsonRpcResponse(reply) IN
         IF ~response.valid THEN Raised("ValidationError", NoError)
         ELSE IF response.error.kind = "object"
              THEN IF response.result # None THEN Raised("AssertionError", NoError)
                   ELSE IF response.id # NoId THEN Raised("AssertionError", NoError)
                   ELSE Raised("JsonRpcError", response.error)
         ELSE IF response.result = None THEN Raised("AssertionError", NoError)
         ELSE IF request.id # response.id THEN Raised("AssertionError", NoError)
         ELSE Returned(response.result)

\* The state of one JsonRpcClient.
VARIABLES
    closed,      \* JsonRpcClient.closed: session.closed
    nextId,      \* the next uuid to be drawn
    inflight,    \* requests posted whose send_request awaits the reply
    posts,       \* messages handed to the transport (session.post calls)
    last,        \* the send_request that ended last: request, reply, outcome
    lastNotify,  \* the notify that completed last
    closeRun,    \* close() calls in a row up to now
    closeRaised  \* whether a close() raised

rpcVars ==
    <<closed, nextId, inflight, posts, last, lastNotify, closeRun, closeRaised>>

NoRequest == JsonRpcRequest(NoId, "", NoParams)
NoCall == [request |-> NoRequest, reply |-> TransportFailure,
           outcome |-> Raised("none", NoError)]
NoNotify == [method |-> "", params |-> NoParams, done |-> FALSE]

InitClient ==
    /\ closed = FALSE
    /\ nextId = 1
    /\ inflight = {}
    /\ posts = 0
    /\ last = NoCall
    /\ lastNotify = NoNotify
    /\ closeRun = 0
    /\ closeRaised = FALSE

\* send_request up to its first await (lines 76-77).  A closed
\* aiohttp session refuses the post with RuntimeError("Session is closed").
send_request_post(method, data) ==
    /\ nextId <= MaxCalls
    /\ LET request == JsonRpcRequest(nextId, method, data) IN
       IF closed
       THEN /\ last' = [request |-> request, reply |-> TransportFailure,
                        outcome |-> Raised("RuntimeError", NoError)]
            /\ UNCHANGED <<inflight, posts>>
       ELSE /\ inflight' = inflight \cup {request}
            /\ posts' = posts + 1
            /\ UNCHANGED last
    /\ nextId' = nextId + 1
    /\ closeRun' = 0
    /\ UNCHANGED <<closed, lastNotify, closeRaised>>

\* send_request from the reply to its end (lines 77-87).
send_request_resume(request, reply) ==
    /\ request \in inflight
    /\ inflight' = inflight \ {request}
    /\ last' = [request |-> request, reply |-> reply,
                outcome |-> send_request_result(request, reply)]
    /\ closeRun' = 0
    /\ UNCHANGED <<closed, nextId, posts, lastNotify, closeRaised>>

\* notify (lines 89-90): send_request(...) is called but not awaited, so
\* the coroutine object is dropped before any of its body runs.
notify(method, data) ==
    /\ lastNotify' = [method |-> method, params |-> data, done |-> TRUE]
    /\ closeRun' = 0
    /\ UNCHANGED <<closed, nextId, inflight, posts, last, closeRaised>>

\* close() that fails on a session that is closed already.
close_raises_when_closed ==
    /\ closeRun < MaxCloses
    /\ closed' = TRUE
    /\ closeRun' = closeRun + 1
    /\ closeRaised' = (closeRaised \/ closed)
    /\ UNCHANGED <<nextId, inflight, posts, last, lastNotify>>

\* JsonRpcClient.close (lines 92-93) and Client.close (bbt/rpc.py 75-76):
\* session.close(), which closes the connector if the session is open and
\* returns without error if it is closed already.  It looks at no call.
close ==
    /\ closeRun < MaxCloses
    /\ closed' = TRUE
    /\ closeRun' = closeRun + 1
    /\ UNCHANGED <<nextId, inflight, posts, last, lastNotify, closeRaised>>

\* ---------------------------------------------- cli.py, trigger
\* A line of the document is a sequence of characters.
Letters ==
    {"a", "b", "c", "d", "e", "f", "g", "h", "i", "j", "k", "l", "m",
     "n", "o", "p", "q", "r", "s", "t", "u", "v", "w", "x", "y", "z",
     "A", "B", "C", "D", "E", "F", "G", "H", "I", "J", "K", "L", "M",
     "N", "O", "P", "Q", "R", "S", "T", "U", "V", "W", "X", "Y", "Z"}
Whitespace == {" ", "\t", "\n", "\r"}

\* str.strip()
strip(line) ==
    LET ink == {i \in 1..Len(line) : line[i] \notin Whitespace} IN
    IF ink = {} THEN <<>>
    ELSE SubSeq(line,
                CHOOSE i \in ink : \A j \in ink : i <= j,
                CHOOSE i \in ink : \A j \in ink : j <= i)

\* CITE_PATTERNS, piece by piece.  Each operator gives the positions at
\* which the text can go on after the piece matched from a position of K.
\* (?:[a-zA-Z]*cite|Cite)[a-zA-Z]*
NameEnds(s, j) ==
    {k \in (j + 4)..(Len(s) + 1) :
        /\ \A m \in j..(k - 1) : s[m] \in Letters
        /\ \/ \E m \in j..(k - 4) : SubSeq(s, m, m + 3) = <<"c", "i", "t", "e">>
           \/ SubSeq(s, j, j + 3) = <<"C", "i", "t", "e">>}
\* \*?
StarEnds(s, K) == K \cup {k + 1 : k \in {k \in K : k <= Len(s) /\ s[k] = "*"}}
\* \s*
SpaceEnds(s, K) ==
    {e \in 1..(Len(s) + 1) :
        \E k \in K : k <= e /\ \A m \in k..(e - 1) : s[m] \in Whitespace}
\* \s*\[[^]]*\]|\s*\<[^>]*\>
GroupEnds(s, K) ==
    {e + 1 : e \in {e \in 1..Len(s) :
        \E k \in SpaceEnds(s, K) :
            /\ k < e
            /\ \/ s[k] = "[" /\ s[e] = "]" /\ \A m \in (k + 1)..(e - 1) : s[m] # "]"
               \/ s[k] = "<" /\ s[e] = ">" /\ \A m \in (k + 1)..(e - 1) : s[m] # ">"}}
\* (?:...){0,2}
GroupsEnds(s, K) == K \cup GroupEnds(s, K) \cup GroupEnds(s, GroupEnds(s, K))
\* $: the end of the text, or the place before a newline that ends it.
DollarPositions(s) ==
    {Len(s) + 1} \cup {e \in {Len(s)} : e >= 1 /\ s[e] = "\n"}
\* \s*\{.*$, the brace pattern without its [^}] class.
OpenBraceEnds_any_body(s, K) ==
    {e \in DollarPositions(s) :
        \E k \in SpaceEnds(s, K) : k < e /\ s[k] = "{"}
\* \s*\{[^}]*$: the places the pattern can end at.
OpenBraceEnds(s, K) ==
    {e \in DollarPositions(s) :
        \E k \in SpaceEnds(s, K) :
            /\ k < e
            /\ s[k] = "{"
            /\ \A m \in (k + 1)..(e - 1) : s[m] # "}"}
OpenBraceToEnd(s, K) == OpenBraceEnds(s, K) # {}

\* CITE_PATTERNS.search(s) is not None
CITE_PATTERNS_search(s) ==
    \E i \in 1..Len(s) :
        /\ s[i] = "\\"
        /\ OpenBraceToEnd(s, GroupsEnds(s, StarEnds(s, NameEnds(s, i + 1))))

\* The places the whole pattern can end at, when started anywhere.
CITE_PATTERNS_ends(s) ==
    UNION {OpenBraceEnds(s, GroupsEnds(s, StarEnds(s, NameEnds(s, i + 1)))) :
              i \in {i \in 1..Len(s) : s[i] = "\\"}}

\* match.end() of CITE_PATTERNS.search(s): [^}]* is greedy, so the match
\* found ends at the last place it can.
CITE_PATTERNS_end(s) ==
    LET ends == CITE_PATTERNS_ends(s) IN
    (CHOOSE e \in ends : \A f \in ends : f <= e) - 1

\* The columns of a line the editor asks completions at: behind a trigger
\* character, "{" or "," (line 91), or at the end of the line.
Cursors(line) ==
    {c \in 0..Len(line) : c = Len(line) \/ (c >= 1 /\ line[c] \in {"{", ","})}

\* Lines the editor asks completions on: "\cite{", "\cite{a}",
\* " \citep[x]{a," and "see {".
Lines ==
    { <<"\\", "c", "i", "t", "e", "{">>,
      <<"\\", "c", "i", "t", "e", "{", "a", "}">>,
      <<" ", "\\", "c", "i", "t", "e", "p", "[", "x", "]", "{", "a", ",", "\n">>,
      <<"s", "e", "e", " ", "{">> }

\* Texts to apply the pattern to, each made of what precedes a command, the
\* command's name, star, groups and opening brace, and what follows it.
RECURSIVE Concat(_)
Concat(parts) ==
    IF parts = <<>> THEN <<>> ELSE Head(parts) \o Concat(Tail(parts))

TriggerPres ==
    { <<>>,
      <<"s", "e", "e", " ">>,
      <<"\\", "c", "i", "t", "e", "{", "a", "}", " ">>,
      <<"\\", "c", "i", "t", "e", "{">>,
      <<"{">> }
TriggerNames ==
    { <<"c", "i", "t", "e">>,
      <<"C", "i", "t", "e">>,
      <<"c", "i", "t", "e", "p">>,
      <<"a", "u", "t", "o", "c", "i", "t", "e">> }
TriggerStars == { <<>>, <<"*">> }
TriggerGroups ==
    { <<>>,
      << <<"[", "x", "]">> >>,
      << <<"[", "x", "]">>, <<"[", "y", "]">> >>,
      << <<"<", "x", ">">> >>,
      << <<" ", "[", "x", "]">>, <<" ", "<", "y", ">">> >>,
      << <<"[", "x", "]">>, <<"[", "y", "]">>, <<"[", "z", "]">> >> }
TriggerOpens == { <<"{">>, <<" ", "{">> }
TriggerBodies ==
    { <<>>,
      <<"a">>,
      <<"a", ",", " ">>,
      <<"a", ",", "b", "\n">>,
      <<"a", "}">>,
      <<"a", "}", " ", "x">>,
      <<"a", "}", "{", "b", "}">>,
      <<"a", "}", "{", "b">> }
TriggerTexts ==
    [pre : TriggerPres, name : TriggerNames, star : TriggerStars,
     groups : TriggerGroups, open : TriggerOpens, body : TriggerBodies]

TriggerText(t) ==
    t.pre \o <<"\\">> \o t.name \o t.star \o Concat(t.groups) \o t.open \o t.body

NoTrigger ==
    [text |-> [pre |-> <<>>, name |-> <<>>, star |-> <<>>, groups |-> <<>>,
               open |-> <<>>, body |-> <<>>],
     done |-> FALSE, matched |-> FALSE, end |-> 0]

\* ------------------------------------------------------- bbt/db.py
\* The citationkey table: row i of the store.
ItemKeys == <<"ABCD2345", "EFGH6789", "JKLM2468", "NPQR3579">>
CitationKeys == <<"doe2020", "lee2021", "kim2022", "roe2023">>
_CitationKeyEntry(i) ==
    [item_id |-> i, key |-> ItemKeys[i], library_id |-> "1",
     citation_key |-> CitationKeys[i], pinned |-> FALSE]
Stores == {[i \in 1..n |-> _CitationKeyEntry(i)] : n \in 0..MaxRows}

CitationKey(key, zotero_key, library_id) ==
    [key |-> key, zotero_key |-> zotero_key, library_id |-> library_id]

\* What fetch_citekeys yields for a row (line 80).
fetch_citekeys_yield(row) ==
    <<row.key, CitationKey(row.citation_key, row.key, row.library_id)>>

\* The documentation without the fence around the exported text.
MarkupContent_unfenced(export) ==
    [kind |-> "markdown", value |-> <<export>>]

\* ---------------------------------------------------------- cli.py
NoDocumentation == [kind |-> "None", value |-> <<>>]
\* MarkupContent(kind=Markdown, value=f"(fence)bibtex\n{export}\n(fence)"),
\* the value as its three parts.
MarkupContent(export) ==
    [kind |-> "markdown", value |-> <<"FENCE bibtex\n", export, "\nFENCE">>]
\* lsp.CompletionItem(label, kind=Operator)
CompletionItem(label) ==
    [label |-> label, kind |-> "Operator", documentation |-> NoDocumentation]

\* The state of the App and of its handlers.
VARIABLES
    store,           \* the rows of better-bibtex.sqlite
    initialized,     \* whether the initialize request was handled
    bbt_db,          \* App.bbt_db: "None" or "Database"
    bbt_rpc,         \* App.bbt_rpc: "None" or "RpcClient"
    drains,          \* completion handlers suspended in fetch_citekeys
    sessions,        \* the drains whose AsyncSession is open
    nextCompletion,  \* the next completion request
    lastCompletion,  \* the completion request that ended last
    decisions,       \* the trigger decisions made: text before the cursor, matched
    trigger,         \* a text CITE_PATTERNS is applied to, and the match found
    resolving,       \* resolve handlers suspended in export_items
    lastResolve      \* the resolve request that ended last

appVars ==
    <<store, initialized, bbt_db, bbt_rpc, drains, sessions, nextCompletion,
      lastCompletion, decisions, trigger, resolving, lastResolve>>

vars == <<rpcVars, appVars>>

NoCompletion ==
    [id |-> 0, matched |-> FALSE, outcome |-> "none", items |-> <<>>,
     storeFailed |-> FALSE]
NoResolve ==
    [item |-> CompletionItem(""), outcome |-> "none",
     result |-> CompletionItem(""), export |-> Raised("none", NoError)]

InitApp ==
    /\ store \in Stores
    /\ initialized = FALSE
    /\ bbt_db = "None"
    /\ bbt_rpc = "None"
    /\ drains = <<>>
    /\ sessions = {}
    /\ nextCompletion = 1
    /\ lastCompletion = NoCompletion
    /\ decisions = {}
    /\ trigger = NoTrigger
    /\ resolving = <<>>
    /\ lastResolve = NoResolve

Init == InitClient /\ InitApp

\* _initialize (lines 52-81).  The two assertions fail when the Zotero
\* directory or better-bibtex.sqlite is missing.  The initialize request is
\* sent once in a session.
_initialize(zotero_dir_exists, bbt_db_is_file) ==
    /\ ~initialized
    /\ initialized' = TRUE
    /\ IF zotero_dir_exists /\ bbt_db_is_file
       THEN bbt_db' = "Database" /\ bbt_rpc' = "RpcClient"
       ELSE UNCHANGED <<bbt_db, bbt_rpc>>
    /\ UNCHANGED <<store, drains, sessions, nextCompletion, lastCompletion,
                   decisions, trigger, resolving, lastResolve>>
    /\ UNCHANGED rpcVars

\* _shutdown (lines 83-87) with App.close (lines 44-47).
_shutdown ==
    /\ IF bbt_rpc # "None" THEN close ELSE UNCHANGED rpcVars
    /\ UNCHANGED appVars

\* _completions up to its first await (lines 93-104).  Of params.position
\* the handler reads the line; the column, character, is not read.
_completions(line, character) ==
    /\ nextCompletion <= MaxCompletions
    /\ nextCompletion' = nextCompletion + 1
    /\ decisions' = decisions \cup
          {[prefix |-> SubSeq(line, 1, character),
            matched |-> CITE_PATTERNS_search(strip(line))]}
    /\ LET current_line == strip(line) IN
       IF ~CITE_PATTERNS_search(current_line)
       THEN /\ lastCompletion' = [NoCompletion EXCEPT !.id = nextCompletion,
                                                       !.outcome = "None"]
            /\ UNCHANGED <<drains, sessions>>
       ELSE IF bbt_db = "None"
       THEN /\ lastCompletion' = [NoCompletion EXCEPT !.id = nextCompletion,
                                                       !.matched = TRUE,
                                                       !.outcome = "AssertionError"]
            /\ UNCHANGED <<drains, sessions>>
       ELSE /\ drains' = (nextCompletion :> <<>>) @@ drains
            /\ sessions' = sessions \cup {nextCompletion}
            /\ UNCHANGED lastCompletion
    /\ UNCHANGED <<store, initialized, bbt_db, bbt_rpc, trigger, resolving,
                   lastResolve>>
    /\ UNCHANGED rpcVars

\* A turn of the comprehension that also asks the service to export the
\* listed key.
_completions_next_exports(id) ==
    /\ id \in DOMAIN drains
    /\ Len(drains[id]) < Len(store)
    /\ LET row == store[Len(drains[id]) + 1]
           key == fetch_citekeys_yield(row)[1]
       IN  drains' = [drains EXCEPT ![id] = Append(@, CompletionItem(key))]
    /\ posts' = posts + 1
    /\ UNCHANGED <<store, initialized, bbt_db, bbt_rpc, sessions, nextCompletion,
                   lastCompletion, decisions, trigger, resolving, lastResolve>>
    /\ UNCHANGED <<closed, nextId, inflight, last, lastNotify, closeRun,
                   closeRaised>>

\* One turn of the comprehension (lines 102-105): fetch_citekeys yields the
\* next row and its first element becomes the label of a new item.
_completions_next(id) ==
    /\ id \in DOMAIN drains
    /\ Len(drains[id]) < Len(store)
    /\ LET row == store[Len(drains[id]) + 1]
           key == fetch_citekeys_yield(row)[1]
       IN  drains' = [drains EXCEPT ![id] = Append(@, CompletionItem(key))]
    /\ UNCHANGED <<store, initialized, bbt_db, bbt_rpc, sessions, nextCompletion,
                   lastCompletion, decisions, trigger, resolving, lastResolve>>
    /\ UNCHANGED rpcVars

\* The rows are exhausted: the session is left and the items are returned
\* (line 106).
_completions_return(id) ==
    /\ id \in DOMAIN drains
    /\ Len(drains[id]) = Len(store)
    /\ lastCompletion' = [id |-> id, matched |-> TRUE, outcome |-> "items",
                          items |-> drains[id], storeFailed |-> FALSE]
    /\ drains' = [d \in DOMAIN drains \ {id} |-> drains[d]]
    /\ sessions' = sessions \ {id}
    /\ UNCHANGED <<store, initialized, bbt_db, bbt_rpc, nextCompletion, decisions,
                   trigger, resolving, lastResolve>>
    /\ UNCHANGED rpcVars

\* The store fails under the drain (the file is unreachable or malformed):
\* the exception leaves fetch_citekeys through its async with, then the
\* comprehension and the handler, which has no except clause.
_completions_store_fails(id) ==
    /\ id \in DOMAIN drains
    /\ lastCompletion' = [id |-> id, matched |-> TRUE, outcome |-> "StoreError",
                          items |-> <<>>, storeFailed |-> TRUE]
    /\ drains' = [d \in DOMAIN drains \ {id} |-> drains[d]]
    /\ sessions' = sessions \ {id}
    /\ UNCHANGED <<store, initialized, bbt_db, bbt_rpc, nextCompletion, decisions,
                   trigger, resolving, lastResolve>>
    /\ UNCHANGED rpcVars

\* The editor cancels the request: the handler's task is cancelled at its
\* await inside fetch_citekeys, CancelledError leaves through the async
\* with, and no list is returned.
_completions_cancelled(id) ==
    /\ id \in DOMAIN drains
    /\ lastCompletion' = [id |-> id, matched |-> TRUE, outcome |-> "CancelledError",
                          items |-> <<>>, storeFailed |-> FALSE]
    /\ drains' = [d \in DOMAIN drains \ {id} |-> drains[d]]
    /\ sessions' = sessions \ {id}
    /\ UNCHANGED <<store, initialized, bbt_db, bbt_rpc, nextCompletion, decisions,
                   trigger, resolving, lastResolve>>
    /\ UNCHANGED rpcVars

\* The positional params with a third element always, None when no library
\* is given.
export_items_params_always_three(citekeys, translator, library_id) ==
    ListParams(<<citekeys, translator, library_id>>)

\* Client.export_items (bbt/rpc.py lines 66-70): the positional params.
export_items_params(citekeys, translator, library_id) ==
    IF library_id # "None"
    THEN ListParams(<<citekeys, translator, library_id>>)
    ELSE ListParams(<<citekeys, translator>>)

\* Client.export_items up to its await (bbt/rpc.py lines 66-71), called on
\* the facade directly.
export_items(citekeys, translator, library_id) ==
    /\ send_request_post("item.export",
                         export_items_params(citekeys, translator, library_id))
    /\ UNCHANGED appVars

\* Client.export_items from the reply on (bbt/rpc.py lines 71-73).
export_items_resume(request, reply) ==
    /\ send_request_resume(request, reply)
    /\ UNCHANGED appVars

\* _resolve_completion_item up to its await (lines 109-114), with
\* export_items and _send up to theirs.
_resolve_completion_item(item) ==
    IF bbt_rpc = "None"
    THEN /\ lastResolve' = [item |-> item, outcome |-> "returned", result |-> item,
                            export |-> Raised("none", NoError)]
         /\ UNCHANGED resolving
         /\ UNCHANGED rpcVars
         /\ UNCHANGED <<store, initialized, bbt_db, bbt_rpc, drains, sessions,
                        nextCompletion, lastCompletion, decisions, trigger>>
    ELSE /\ send_request_post("item.export",
                              export_items_params(<<item.label>>, BIBTEX, "None"))
         /\ IF closed
            THEN /\ lastResolve' = [item |-> item, outcome |-> "RuntimeError",
                                    result |-> item,
                                    export |-> Raised("RuntimeError", NoError)]
                 /\ UNCHANGED resolving
            ELSE /\ resolving' = (nextId :> item) @@ resolving
                 /\ UNCHANGED lastResolve
         /\ UNCHANGED <<store, initialized, bbt_db, bbt_rpc, drains, sessions,
                        nextCompletion, lastCompletion, decisions, trigger>>

\* export_items from the reply on (bbt/rpc.py lines 71-73) and the rest of
\* _resolve_completion_item (lines 115-121).  Nothing catches what
\* send_request or the isinstance assertion raises.
resolve_outcome(item, export) ==
    IF export.kind # "returned"
    THEN [item |-> item, outcome |-> export.kind, result |-> item, export |-> export]
    ELSE IF export.value.type # "str"
    THEN [item |-> item, outcome |-> "AssertionError", result |-> item,
          export |-> export]
    ELSE [item |-> item, outcome |-> "returned",
          result |-> [item EXCEPT !.documentation = MarkupContent(export.value.text)],
          export |-> export]

_resolve_completion_item_resume(request, reply) ==
    /\ request.id \in DOMAIN resolving
    /\ send_request_resume(request, reply)
    /\ lastResolve' = resolve_outcome(resolving[request.id],
                                      send_request_result(request, reply))
    /\ resolving' = [i \in DOMAIN resolving \ {request.id} |-> resolving[i]]
    /\ UNCHANGED <<store, initialized, bbt_db, bbt_rpc, drains, sessions,
                   nextCompletion, lastCompletion, decisions, trigger>>

\* The candidates the editor may ask to resolve: those a completion offers.
Candidates ==
    {CompletionItem(fetch_citekeys_yield(store[i])[1]) : i \in DOMAIN store}

\* The replies the transport gives to one item.export request: a failure,
\* or a JSON-RPC 2.0 body with the request's id or none, an exported text, a
\* number or no result, and an error object or none.
ExportReplies(request) ==
    {r \in Replies :
        \/ r = TransportFailure
        \/ /\ r.jsonrpc = "2.0"
           /\ r.id \in {NoId, request.id}
           /\ r.result.kind \in {"absent", "string", "number"}
           /\ r.error.kind \in {"absent", "object"}}

Next ==
    \/ \E d \in BOOLEAN, f \in BOOLEAN : _initialize(d, f)
    \/ _shutdown
    \/ \E line \in Lines : \E c \in Cursors(line) : _completions(line, c)
    \/ \E id \in DOMAIN drains : _completions_next(id)
    \/ \E id \in DOMAIN drains : _completions_return(id)
    \/ \E id \in DOMAIN drains : _completions_store_fails(id)
    \/ \E id \in DOMAIN drains : _completions_cancelled(id)
    \/ \E item \in Candidates : _resolve_completion_item(item)
    \/ \E r \in inflight : \E reply \in ExportReplies(r) :
          _resolve_completion_item_resume(r, reply)

Spec == Init /\ [][Next]_vars

\* The session with completion requests only.
NextListing ==
    \/ \E d \in BOOLEAN, f \in BOOLEAN : _initialize(d, f)
    \/ _shutdown
    \/ \E line \in Lines : \E c \in Cursors(line) : _completions(line, c)
    \/ \E id \in DOMAIN drains : _completions_next(id)
    \/ \E id \in DOMAIN drains : _completions_return(id)
    \/ \E id \in DOMAIN drains : _completions_store_fails(id)
    \/ \E id \in DOMAIN drains : _completions_cancelled(id)

SpecListing == Init /\ [][NextListing]_vars

\* The session with resolve requests only.
NextResolve ==
    \/ \E d \in BOOLEAN, f \in BOOLEAN : _initialize(d, f)
    \/ _shutdown
    \/ \E item \in Candidates : _resolve_completion_item(item)
    \/ \E r \in inflight : \E reply \in ExportReplies(r) :
          _resolve_completion_item_resume(r, reply)

SpecResolve == Init /\ [][NextResolve]_vars

\* The session with completion and resolve requests, up to its shutdown:
\* completions are asked behind a "{" typed at the end of a line, and an
\* export is answered with a text or fails in the transport.
OnDemandLines == {line \in Lines : line[Len(line)] = "{"}
OnDemandReplies(request) ==
    {r \in ExportReplies(request) :
        \/ r = TransportFailure
        \/ /\ r.id = request.id
           /\ r.result.kind = "string"
           /\ r.error.kind = "absent"}

NextOnDemand ==
    \/ \E d \in BOOLEAN, f \in BOOLEAN : _initialize(d, f)
    \/ \E line \in OnDemandLines : _completions(line, Len(line))
    \/ \E id \in DOMAIN drains : _completions_next(id)
    \/ \E id \in DOMAIN drains : _completions_return(id)
    \/ \E item \in Candidates : _resolve_completion_item(item)
    \/ \E r \in inflight : \E reply \in OnDemandReplies(r) :
          _resolve_completion_item_resume(r, reply)

SpecOnDemand == Init /\ [][NextOnDemand]_vars

\* ------------------------------------------- fetch_citekeys on its own
\* The async generator under any consumer.  A scan is in drains while its
\* consumer iterates, and in sessions while its AsyncSession is open;
\* lastCompletion is the iteration that ended last, and how.

\* The first __anext__ enters the async with (bbt/db.py line 76).
fetch_citekeys_enter ==
    /\ nextCompletion <= MaxCompletions
    /\ nextCompletion' = nextCompletion + 1
    /\ drains' = (nextCompletion :> <<>>) @@ drains
    /\ sessions' = sessions \cup {nextCompletion}
    /\ UNCHANGED <<store, initialized, bbt_db, bbt_rpc, lastCompletion, decisions,
                   trigger, resolving, lastResolve>>
    /\ UNCHANGED rpcVars

\* The generator yields the next row (line 80) and is suspended there.
fetch_citekeys_yields(id) ==
    /\ id \in DOMAIN drains
    /\ Len(drains[id]) < Len(store)
    /\ drains' = [drains EXCEPT
                     ![id] = Append(@, fetch_citekeys_yield(store[Len(@) + 1]))]
    /\ UNCHANGED <<store, initialized, bbt_db, bbt_rpc, sessions, nextCompletion,
                   lastCompletion, decisions, trigger, resolving, lastResolve>>
    /\ UNCHANGED rpcVars

\* The rows are exhausted: the async with is left and StopAsyncIteration
\* ends the consumer's loop.
fetch_citekeys_returns(id) ==
    /\ id \in DOMAIN drains
    /\ Len(drains[id]) = Len(store)
    /\ drains' = [d \in DOMAIN drains \ {id} |-> drains[d]]
    /\ sessions' = sessions \ {id}
    /\ lastCompletion' = [NoCompletion EXCEPT !.id = id, !.outcome = "StopAsyncIteration",
                                              !.items = drains[id]]
    /\ UNCHANGED <<store, initialized, bbt_db, bbt_rpc, nextCompletion, decisions,
                   trigger, resolving, lastResolve>>
    /\ UNCHANGED rpcVars

\* The store fails at an await of the generator (lines 78-79): the exception
\* leaves through the async with and reaches the consumer.
fetch_citekeys_raises(id) ==
    /\ id \in DOMAIN drains
    /\ drains' = [d \in DOMAIN drains \ {id} |-> drains[d]]
    /\ sessions' = sessions \ {id}
    /\ lastCompletion' = [NoCompletion EXCEPT !.id = id, !.outcome = "StoreError",
                                              !.items = drains[id]]
    /\ UNCHANGED <<store, initialized, bbt_db, bbt_rpc, nextCompletion, decisions,
                   trigger, resolving, lastResolve>>
    /\ UNCHANGED rpcVars

\* The consumer leaves its async for at a row (break or return) and drops
\* the generator: nothing runs in the generator, which stays suspended at
\* its yield inside the async with.
fetch_citekeys_abandoned(id) ==
    /\ id \in DOMAIN drains
    /\ Len(drains[id]) >= 1
    /\ drains' = [d \in DOMAIN drains \ {id} |-> drains[d]]
    /\ lastCompletion' = [NoCompletion EXCEPT !.id = id, !.outcome = "abandoned",
                                              !.items = drains[id]]
    /\ UNCHANGED <<store, initialized, bbt_db, bbt_rpc, sessions, nextCompletion,
                   decisions, trigger, resolving, lastResolve>>
    /\ UNCHANGED rpcVars

\* The task the event loop's finalizer hook made for the dropped generator
\* runs aclose(): GeneratorExit is thrown at the yield and leaves through
\* the async with.
fetch_citekeys_finalized(id) ==
    /\ id \in sessions \ DOMAIN drains
    /\ sessions' = sessions \ {id}
    /\ UNCHANGED <<store, initialized, bbt_db, bbt_rpc, drains, nextCompletion,
                   lastCompletion, decisions, trigger, resolving, lastResolve>>
    /\ UNCHANGED rpcVars

NextScan ==
    \/ fetch_citekeys_enter
    \/ \E id \in DOMAIN drains : fetch_citekeys_yields(id)
    \/ \E id \in DOMAIN drains : fetch_citekeys_returns(id)
    \/ \E id \in DOMAIN drains : fetch_citekeys_raises(id)
    \/ \E id \in DOMAIN drains : fetch_citekeys_abandoned(id)
    \/ \E id \in sessions : fetch_citekeys_finalized(id)

SpecScan == Init /\ [][NextScan]_vars

\* ------------------------------------------- the pattern on its own
InitTrigger ==
    /\ InitClient
    /\ store = <<>>
    /\ initialized = FALSE
    /\ bbt_db = "None"
    /\ bbt_rpc = "None"
    /\ drains = <<>>
    /\ sessions = {}
    /\ nextCompletion = 1
    /\ lastCompletion = NoCompletion
    /\ decisions = {}
    /\ trigger \in {[NoTrigger EXCEPT !.text = t] : t \in TriggerTexts}
    /\ resolving = <<>>
    /\ lastResolve = NoResolve

\* CITE_PATTERNS.search(text): whether it matches, and where the match ends.
search ==
    /\ ~trigger.done
    /\ LET s == TriggerText(trigger.text) IN
       trigger' = [trigger EXCEPT
                      !.done = TRUE,
                      !.matched = CITE_PATTERNS_search(s),
                      !.end = IF CITE_PATTERNS_search(s)
                              THEN CITE_PATTERNS_end(s) ELSE 0]
    /\ UNCHANGED <<store, initialized, bbt_db, bbt_rpc, drains, sessions,
                   nextCompletion, lastCompletion, decisions, resolving,
                   lastResolve>>
    /\ UNCHANGED rpcVars

NextTrigger == search

SpecTrigger == InitTrigger /\ [][NextTrigger]_vars

\* ------------------------------------------- the client on its own
InitRpc == InitClient /\ InitApp /\ store = <<>>

NextRpc ==
    \/ \E m \in Messages : send_request_post(m.method, m.params) /\ UNCHANGED appVars
    \/ \E r \in inflight, reply \in Replies :
          send_request_resume(r, reply) /\ UNCHANGED appVars
    \/ \E m \in Messages : notify(m.method, m.params) /\ UNCHANGED appVars
    \/ close /\ UNCHANGED appVars

SpecRpc == InitRpc /\ [][NextRpc]_vars

\* ------------------------------------------- the facade on its own
\* What export_items is called with: one key or two, two of the
\* translators, no library or a library id; an export is answered with a
\* text or fails in the transport.
ExportCitekeys == { <<"doe2020">>, <<"doe2020", "roe2021">> }
ExportTranslators == { BIBTEX, "Better BibLaTeX" }
LibraryIds == { "None", "2" }

NextFacade ==
    \/ \E k \in ExportCitekeys, t \in ExportTranslators, l \in LibraryIds :
          export_items(k, t, l)
    \/ \E r \in inflight : \E reply \in OnDemandReplies(r) :
          export_items_resume(r, reply)
    \/ close /\ UNCHANGED appVars

SpecFacade == InitRpc /\ [][NextFacade]_vars

\* ------------------------------------------------- claims C1 to C7
\* The reply of the send_request that ended last, as the claims read it.
Answered == last.reply.status = "ok"
ResultSet == last.reply.result.kind \notin {"absent", "null"}
ErrorSet == last.reply.error.kind = "object"
OwnId == last.reply.id = last.request.id
ReturnedValue == last.outcome.kind = "returned"

\* C1: a response with both result and error set, or with neither set, makes
\* send_request fail with the malformed-response error (pydantic's
\* ValidationError); no value is returned.
C1_MalformedResponseFails ==
    (Answered /\ (ResultSet <=> ErrorSet)) =>
        last.outcome.kind = "ValidationError"

C1_Witness ==
    /\ Answered /\ ResultSet /\ ErrorSet /\ OwnId
    /\ last.reply.jsonrpc = "2.0"
    /\ last.outcome.kind = "ValidationError"

\* A well-formed response to the request: version 2.0, the request's id, a
\* result member and no error member.
WellFormedResult ==
    /\ Answered
    /\ last.reply.jsonrpc = "2.0"
    /\ OwnId
    /\ last.reply.result \in JsonValues
    /\ last.reply.error.kind = "absent"

\* C2 as stated: a well-formed response with result = X, for every JSON value
\* X (null included), makes send_request return X unchanged.
C2_RoundTripEveryValue ==
    WellFormedResult =>
        /\ ReturnedValue
        /\ json_dumps(last.outcome.value) = last.reply.result

\* C2 amended: a well-formed response with result = X, for every JSON value X
\* other than null, makes send_request return X unchanged.
C2_RoundTripNonNull ==
    (WellFormedResult /\ last.reply.result # JsonNull) =>
        /\ ReturnedValue
        /\ json_dumps(last.outcome.value) = last.reply.result

C2_Witness ==
    /\ WellFormedResult
    /\ last.reply.result.kind = "boolean"
    /\ ReturnedValue
    /\ json_dumps(last.outcome.value) = last.reply.result

\* C3: a response with error set and result absent, its id absent or equal to
\* the request's id, makes send_request fail with JsonRpcError carrying the
\* payload's code, message and data, and in no other way.
C3_ErrorResponseRaisesJsonRpcError ==
    ( /\ Answered
      /\ last.reply.jsonrpc = "2.0"
      /\ ErrorSet
      /\ last.reply.result.kind = "absent"
      /\ (last.reply.id = NoId \/ OwnId) ) =>
        /\ last.outcome.kind = "JsonRpcError"
        /\ last.outcome.error = last.reply.error

\* C4: a send_request that returns a value returns the result of a response
\* that carries its own request id, whatever else is in flight and in
\* whatever order the replies arrive.
C4_ReturnsOwnResponse ==
    ReturnedValue =>
        /\ OwnId
        /\ json_dumps(last.outcome.value) = last.reply.result

\* A later request is answered while an earlier one is still in flight.
C4_Witness ==
    /\ ReturnedValue
    /\ OwnId
    /\ \E r \in inflight : r.id < last.request.id

\* C5: every notify hands exactly one message to the transport.
C5_NotifyHandsOneMessage ==
    [][(\E m \in Messages : notify(m.method, m.params)) => posts' = posts + 1]_vars

\* C6: the session is never closed while a send_request is outstanding.
C6_NoCloseWhileOutstanding == ~(closed /\ inflight # {})

\* C7: after every close(), a second one directly after a first included, the
\* client is closed and the call did not fail.
C7_CloseIdempotent == closeRun >= 1 => (closed /\ ~closeRaised)

\* Two close() calls in a row, after a send_request was made.
C7_Witness == closeRun = 2 /\ closed /\ ~closeRaised /\ nextId > 1

\* ------------------------------------------------ claims C8 to C10
\* C8: a triggered completion request returns one candidate per row of the
\* store, each labelled with its row's citation key.
C8_LabelsAreCitationKeys ==
    lastCompletion.outcome = "items" =>
        /\ Len(lastCompletion.items) = Len(store)
        /\ \A i \in 1..Len(lastCompletion.items) :
              lastCompletion.items[i].label = store[i].citation_key

\* C9: a resolve request whose item.export fails with a remote error or a
\* transport error returns the candidate without documentation; the handler
\* does not fail.
C9_FailedExportReturnsCandidate ==
    lastResolve.export.kind \in {"JsonRpcError", "ClientError"} =>
        /\ lastResolve.outcome = "returned"
        /\ lastResolve.result = lastResolve.item
        /\ lastResolve.result.documentation = NoDocumentation

\* C10: a triggered completion request under which the store fails is
\* answered with an empty candidate list; the handler does not fail.
C10_StoreFailureGivesEmptyList ==
    lastCompletion.storeFailed =>
        /\ lastCompletion.outcome = "items"
        /\ lastCompletion.items = <<>>

\* ----------------------------------------------- claims C11 to C20
\* C11: the candidate list of an older completion request is never delivered
\* after the list of a newer one.
C11_NoStaleListAfterNewer ==
    [][\A id \in DOMAIN drains :
          _completions_return(id) =>
              ~(lastCompletion.outcome = "items" /\ lastCompletion.id > id)]_vars

\* C12: two completion requests with the same text before the cursor get the
\* same trigger decision, whatever follows the cursor.
C12_DecisionFromPrefixOnly ==
    \A a \in decisions, b \in decisions :
        a.prefix = b.prefix => a.matched = b.matched

\* The text a pattern was applied to, as C13 reads it.
TriggerCount(s, c, i) == Cardinality({k \in 1..i : s[k] = c})
Balanced(s) ==
    /\ \A i \in 1..Len(s) : TriggerCount(s, "{", i) >= TriggerCount(s, "}", i)
    /\ TriggerCount(s, "{", Len(s)) = TriggerCount(s, "}", Len(s))
\* The last command is of the grammar (at most two groups) and its brace is
\* not closed before the end of the text.
EndsInUnclosedCommand ==
    /\ Len(trigger.text.groups) <= 2
    /\ \A i \in 1..Len(trigger.text.body) : trigger.text.body[i] # "}"
\* The braces from the last command's opening brace on are balanced.
BalancedAfterLastCommand == Balanced(<<"{">> \o trigger.text.body)

\* C13: on a text that ends in an unclosed citation command of the grammar
\* the pattern matches and the match ends at the end of the text; on a text
\* whose braces after the last citation command are balanced it does not
\* match.
C13_DetectsUnclosedCommands ==
    trigger.done =>
        /\ EndsInUnclosedCommand =>
              /\ trigger.matched
              /\ trigger.end = Len(TriggerText(trigger.text))
        /\ BalancedAfterLastCommand => ~trigger.matched

C13_Witness ==
    /\ trigger.done
    /\ EndsInUnclosedCommand
    /\ Len(trigger.text.groups) = 2
    /\ trigger.text.star = <<"*">>
    /\ trigger.text.pre # <<>>
    /\ trigger.matched
    /\ trigger.end = Len(TriggerText(trigger.text))

\* C14: a completion request starts a scan of the store exactly when its
\* trigger detection matched, so the scans started are as many as the matched
\* requests.
C14_ScanStartedIffMatched ==
    [][\A line \in Lines : \A c \in Cursors(line) :
          _completions(line, c) =>
              (sessions' # sessions <=> CITE_PATTERNS_search(strip(line)))]_vars

\* C15: a step of a completion request hands nothing to the transport, however
\* many candidates it lists; a step hands over at most one message, and the
\* one that does is a resolve request posting item.export for the single key
\* of its candidate.
C15_ExportOnlyOnResolve ==
    [][/\ (drains' # drains \/ lastCompletion' # lastCompletion
              \/ nextCompletion' # nextCompletion)
          => (posts' = posts /\ inflight' = inflight)
       /\ posts' \in {posts, posts + 1}
       /\ posts' = posts + 1 =>
             \E item \in Candidates :
                /\ resolving' = (nextId :> item) @@ resolving
                /\ inflight' = inflight \cup
                      {JsonRpcRequest(nextId, "item.export",
                                      ListParams(<< <<item.label>> , BIBTEX>>))}]_vars

C15_Witness ==
    /\ lastCompletion.outcome = "items"
    /\ Len(lastCompletion.items) >= 2
    /\ posts = 1
    /\ lastResolve.outcome = "returned"
    /\ lastResolve.export.kind = "returned"

\* C16: export_items posts item.export with the params (citekeys, translator)
\* when no library id is given and (citekeys, translator, library_id) when one
\* is; a third element is never None.
C16_TwoOrThreeParams ==
    [][\A k \in ExportCitekeys, t \in ExportTranslators, l \in LibraryIds :
          export_items(k, t, l) =>
              \A r \in inflight' \ inflight :
                  /\ r.method = "item.export"
                  /\ r.params.kind = "list"
                  /\ r.params.items = IF l = "None" THEN <<k, t>> ELSE <<k, t, l>>
                  /\ Len(r.params.items) = 3 => r.params.items[3] # "None"]_vars

C16_Witness ==
    /\ \E r \in inflight :
          r.params.items = << <<"doe2020">>, BIBTEX >>
    /\ \E r \in inflight :
          r.params.items = << <<"doe2020">>, BIBTEX, "2" >>

\* C17: a resolve request for a candidate with label k asks item.export for
\* ([k], BIBTEX) with no library id, and when the service answers with a text
\* T the handler returns the candidate with the Markdown documentation
\* "FENCE bibtex\n" T "\nFENCE" and its other fields unchanged.
C17_ResolveAttachesExport ==
    (lastResolve.export.kind = "returned" /\ lastResolve.export.value.type = "str")
    => LET T == lastResolve.export.value.text
           item == lastResolve.item
       IN  /\ last.request.method = "item.export"
           /\ last.request.params = ListParams(<< <<item.label>>, BIBTEX >>)
           /\ lastResolve.export.value = json_loads(last.reply.result)
           /\ lastResolve.outcome = "returned"
           /\ lastResolve.result =
                 [item EXCEPT !.documentation =
                     [kind |-> "markdown",
                      value |-> <<"FENCE bibtex\n", T, "\nFENCE">>]]

C17_Witness ==
    /\ lastResolve.export.kind = "returned"
    /\ lastResolve.export.value.type = "str"
    /\ lastResolve.outcome = "returned"
    /\ lastResolve.result.label = lastResolve.item.label
    /\ lastResolve.result.documentation.kind = "markdown"
    /\ lastResolve.item.documentation.kind = "None"

\* C18: a store session is open exactly while its iteration is active;
\* once an iteration has ended, by exhaustion, by the consumer leaving it
\* early or by a failure, its session has been released.
C18_SessionOnlyWhileIterating == sessions = DOMAIN drains

\* C19: no request is issued on a transport that has been closed: no
\* send_request, and so no export_items of a resolve request, is called on
\* the client after the shutdown handler closed it.
C19_NoRequestOnClosedTransport ==
    /\ last.outcome.kind # "RuntimeError"
    /\ lastResolve.outcome # "RuntimeError"

\* C20: a completion request whose trigger matched never fails on the
\* assertion that the database handle is set.
C20_TriggeredCompletionHasDatabase ==
    lastCompletion.matched => lastCompletion.outcome # "AssertionError"

=============================================================================
